---- MODULE Spec2Model ----
(***************************************************************************)
(* SafeAgent (backend/safe_agent.py): an agent whose tools are wrapped     *)
(* with an approval check.  The model covers the Safety Policy and its     *)
(* mutators, wrap_tool_with_approval / get_all_tools, the wrapped          *)
(* invocation approved_on_invoke (with its two suspension points, the      *)
(* approval callback and the original invocation) and the step hook        *)
(* _custom_tool_use_behavior.                                              *)
(***************************************************************************)
EXTENDS Integers, Sequences, FiniteSets, Bags, TLC

(***************************************************************************)
(* Bounds of the model.                                                    *)
(***************************************************************************)
\* at most this many compiled patterns are kept in _safe_tool_patterns
MaxPatterns == 1
\* at most this many tool invocations are in flight at a time
MaxCalls == 2

(***************************************************************************)
(* Python's None and Optional values: <<>> is None, <<v>> is the value v.  *)
(***************************************************************************)
None == <<>>

Some(v) == <<v>>

\* Python truthiness of an Optional[str]: None and "" are falsy
Truthy(o) == o # None /\ o[1] # ""

\* `o or d` for an Optional[str] o and a string d
OrElse(o, d) == IF Truthy(o) THEN o[1] ELSE d

(***************************************************************************)
(* The tools of the underlying agent definition (Agent.get_all_tools()).   *)
(* A tool value carries its name, whether it is a FunctionTool, the        *)
(* _approval_wrapped mark and the number of approved_on_invoke closures    *)
(* that stand between a call and the original on_invoke_tool.              *)
(***************************************************************************)
RawTool(n, f) == [name |-> n, function |-> f, approval_wrapped |-> FALSE, layers |-> 0]

\* the tool list of the agent definition in the runs with tool invocations
RunTools == << RawTool("write_file", TRUE),
               RawTool("web_search_preview", FALSE) >>

\* ... and in the runs that exercise the classifier
ClassifyTools == << RawTool("list_directory", TRUE),
                    RawTool("write_file", TRUE),
                    RawTool("web_search_preview", FALSE) >>

\* names handed to add_safe_tool / remove_safe_tool
RunNameInputs == {"write_file"}

ClassifyNameInputs == {"list_directory", "write_file"}

\* pattern texts handed to add_safe_tool_pattern; "*" does not compile
RunPatternInputs == {"w.*e$", "*"}

ClassifyPatternInputs == {"list_", "w.*e$", "file", "*"}

\* rejection reasons the callback may give (third component of its answer)
ReasonInputs == {None, Some(""), Some("policy")}

\* the run context handed to on_invoke_tool
ContextInput == "ctx"

\* params_json handed to on_invoke_tool in the runs with policy mutations
RunPayloadInputs == {"{\"path\": \"a.txt\"}"}

\* ... and where the payloads vary: an object, an array, a truncated text, ""
InvokePayloadInputs == {"{\"path\": \"a.txt\", \"mode\": \"w\"}", "[1]", "{\"path\": ", ""}

\* tool_results handed to the step hook
ResultInputs == {"r1", "r2"}

(***************************************************************************)
(* re.compile / Pattern.match for the pattern syntax used here: literal    *)
(* characters, "." (any character), a postfix "*" and the anchor "$".      *)
(***************************************************************************)
Char(s, i) == SubSeq(s, i, i)

\* re.compile(p) raises re.error ("nothing to repeat" / "multiple repeat")
ReCompiles(p) ==
    \A i \in 1..Len(p) :
        Char(p, i) = "*" => (i > 1 /\ Char(p, i - 1) \notin {"*", "$"})

AtomMatches(a, c) == a = "." \/ a = c

\* the backtracking matcher: does p from index i match s from position j
RECURSIVE MatchHere(_, _, _, _)
MatchHere(p, i, s, j) ==
    IF i > Len(p) THEN TRUE
    ELSE IF i < Len(p) /\ Char(p, i + 1) = "*"
         THEN \E k \in 0..(Len(s) + 1 - j) :
                 /\ \A q \in j..(j + k - 1) : AtomMatches(Char(p, i), Char(s, q))
                 /\ MatchHere(p, i + 2, s, j + k)
    ELSE IF Char(p, i) = "$"
         THEN j = Len(s) + 1 /\ MatchHere(p, i + 1, s, j)
    ELSE /\ j <= Len(s)
         /\ AtomMatches(Char(p, i), Char(s, j))
         /\ MatchHere(p, i + 1, s, j + 1)

\* pattern.match(name): a match object (truthy) iff p matches at the start
ReMatch(p, s) == MatchHere(p, 1, s, 1)

(***************************************************************************)
(* json.dumps of a flat dict of strings, members in insertion order.       *)
(***************************************************************************)
RECURSIVE JsonMembers(_, _)
JsonMembers(members, i) ==
    IF i > Len(members) THEN ""
    ELSE (IF i > 1 THEN ", " ELSE "")
         \o "\"" \o members[i][1] \o "\": \"" \o members[i][2] \o "\""
         \o JsonMembers(members, i + 1)

JsonDumps(members) == "{" \o JsonMembers(members, 1) \o "}"

(***************************************************************************)
(* json.loads for the texts a tool call carries here: flat objects and     *)
(* arrays of strings (no escapes) and non-negative integers, null, with    *)
(* blanks as the only whitespace.  A loaded value is a record with its     *)
(* kind; JSONDecodeError is [kind |-> "error"].                            *)
(***************************************************************************)
Digits == {"0", "1", "2", "3", "4", "5", "6", "7", "8", "9"}

\* the first index from i on that holds no blank
RECURSIVE SkipWs(_, _)
SkipWs(s, i) == IF i <= Len(s) /\ Char(s, i) = " " THEN SkipWs(s, i + 1) ELSE i

\* the first index from i on that holds character ch, Len(s) + 1 if none
RECURSIVE IndexOf(_, _, _)
IndexOf(s, ch, i) == IF i > Len(s) \/ Char(s, i) = ch THEN i ELSE IndexOf(s, ch, i + 1)

\* the first index from i on that holds no digit
RECURSIVE DigitsEnd(_, _)
DigitsEnd(s, i) == IF i <= Len(s) /\ Char(s, i) \in Digits THEN DigitsEnd(s, i + 1) ELSE i

JsonError == [kind |-> "error", next |-> 0]

\* a string or a number starting at index i: the value and the index after it
JsonScalar(s, i) ==
    IF i > Len(s) THEN JsonError
    ELSE IF Char(s, i) = "\""
    THEN IF IndexOf(s, "\"", i + 1) > Len(s) THEN JsonError
         ELSE [kind |-> "str", text |-> SubSeq(s, i + 1, IndexOf(s, "\"", i + 1) - 1),
               next |-> IndexOf(s, "\"", i + 1) + 1]
    ELSE IF Char(s, i) \in Digits
    THEN IF Char(s, i) = "0" /\ DigitsEnd(s, i) > i + 1 THEN JsonError
         ELSE [kind |-> "int", text |-> SubSeq(s, i, DigitsEnd(s, i) - 1),
               next |-> DigitsEnd(s, i)]
    ELSE IF i + 3 <= Len(s) /\ SubSeq(s, i, i + 3) = "null"
    THEN [kind |-> "null", text |-> "None", next |-> i + 4]
    ELSE JsonError

\* dict[k] = v: a repeated key keeps its place and takes the new value
DictSet(items, k, v) ==
    IF \E n \in 1..Len(items) : items[n][1] = k
    THEN [n \in 1..Len(items) |-> IF items[n][1] = k THEN <<k, v>> ELSE items[n]]
    ELSE Append(items, <<k, v>>)

\* the members of an object from index i (a key is expected there)
RECURSIVE JsonObjectMembers(_, _, _)
JsonObjectMembers(s, i, items) ==
    LET key   == JsonScalar(s, i)
        colon == SkipWs(s, key.next)
        val   == JsonScalar(s, SkipWs(s, colon + 1))
        after == SkipWs(s, val.next)
    IN  IF key.kind # "str" THEN JsonError
        ELSE IF colon > Len(s) \/ Char(s, colon) # ":" THEN JsonError
        ELSE IF val.kind = "error" THEN JsonError
        ELSE IF after > Len(s) THEN JsonError
        ELSE IF Char(s, after) = "}"
        THEN [kind |-> "dict", items |-> DictSet(items, key.text, val), next |-> after + 1]
        ELSE IF Char(s, after) = ","
        THEN JsonObjectMembers(s, SkipWs(s, after + 1), DictSet(items, key.text, val))
        ELSE JsonError

\* the elements of an array from index i (a value is expected there)
RECURSIVE JsonArrayElements(_, _)
JsonArrayElements(s, i) ==
    LET val   == JsonScalar(s, i)
        after == SkipWs(s, val.next)
    IN  IF val.kind = "error" THEN JsonError
        ELSE IF after > Len(s) THEN JsonError
        ELSE IF Char(s, after) = "]" THEN [kind |-> "list", next |-> after + 1]
        ELSE IF Char(s, after) = "," THEN JsonArrayElements(s, SkipWs(s, after + 1))
        ELSE JsonError

JsonValue(s, i) ==
    IF i > Len(s) THEN JsonError
    ELSE IF Char(s, i) = "{"
    THEN IF SkipWs(s, i + 1) <= Len(s) /\ Char(s, SkipWs(s, i + 1)) = "}"
         THEN [kind |-> "dict", items |-> <<>>, next |-> SkipWs(s, i + 1) + 1]
         ELSE JsonObjectMembers(s, SkipWs(s, i + 1), <<>>)
    ELSE IF Char(s, i) = "["
    THEN IF SkipWs(s, i + 1) <= Len(s) /\ Char(s, SkipWs(s, i + 1)) = "]"
         THEN [kind |-> "list", next |-> SkipWs(s, i + 1) + 1]
         ELSE JsonArrayElements(s, SkipWs(s, i + 1))
    ELSE JsonScalar(s, i)

\* json.loads(s): the whole text must be one value ("Extra data" otherwise)
JsonLoads(s) ==
    LET v == JsonValue(s, SkipWs(s, 1))
    IN  IF v.kind # "error" /\ SkipWs(s, v.next) > Len(s) THEN v ELSE JsonError

\* repr(v) of a loaded string, integer or null
Repr(v) ==
    IF v.kind # "str" THEN v.text
    ELSE IF IndexOf(v.text, "'", 1) <= Len(v.text)
    THEN "\"" \o v.text \o "\""
    ELSE "'" \o v.text \o "'"

\* ", ".join([f"{k}: {repr(v)}" for k, v in items])
RECURSIVE JoinItems(_, _)
JoinItems(items, n) ==
    IF n > Len(items) THEN ""
    ELSE (IF n > 1 THEN ", " ELSE "")
         \o items[n][1] \o ": " \o Repr(items[n][2])
         \o JoinItems(items, n + 1)

\* the display text of the arguments with no except clause: the try block
\* raises when json.loads fails or the loaded value has no .items(); None
\* stands for the error leaving approved_on_invoke
FormatArgsNoExcept(params_json) ==
    LET args_dict == IF params_json # "" THEN JsonLoads(params_json)
                     ELSE [kind |-> "dict", items |-> <<>>]
    IN  IF args_dict.kind # "dict" THEN None
        ELSE Some(JoinItems(args_dict.items, 1))

\* formatted_args of approved_on_invoke (the except clause gives the raw
\* text); None would be an error leaving it
FormatArgs(params_json) ==
    LET args_dict == IF params_json # "" THEN JsonLoads(params_json)
                     ELSE [kind |-> "dict", items |-> <<>>]
    IN  IF args_dict.kind # "dict" THEN Some(params_json)
        ELSE Some(JoinItems(args_dict.items, 1))

(***************************************************************************)
(* ToolsToFinalOutputResult and the original tool_use_behavior.            *)
(***************************************************************************)
ToolsToFinalOutputResult(is_final, output) ==
    [is_final_output |-> is_final, final_output |-> output]

\* what the original tool_use_behavior callable computes from tool_results
OriginalResult(tool_results) ==
    IF tool_results = "r1"
    THEN ToolsToFinalOutputResult(TRUE, Some("answer"))
    ELSE ToolsToFinalOutputResult(FALSE, None)

\* calling it: a coroutine function hands back a coroutine, not the result
CallOriginal(kind, tool_results) ==
    IF kind = "async"
    THEN [coroutine |-> OriginalResult(tool_results)]
    ELSE OriginalResult(tool_results)

Await(co) == co.coroutine

\* inspect.iscoroutinefunction
IsCoroutineFunction(kind) == kind = "async"

VARIABLES
    tools,                       \* the tools of the underlying agent definition
    safe_tool_names,             \* self._safe_tool_names
    safe_tool_patterns,          \* self._safe_tool_patterns (compiled, in order)
    skip_approvals,              \* self._skip_approvals
    halt_on_rejection,           \* self.halt_on_rejection
    halt_run,                    \* self._halt_run
    halt_reason,                 \* self._halt_reason
    original_tool_use_behavior,  \* self._original_tool_use_behavior
    tool_use_behavior,           \* self.tool_use_behavior
    tools_out,                   \* the list the last get_all_tools() returned
    calls,                       \* the tool invocations in flight (a bag)
    rejected,                    \* some wrapped call has been rejected
    remembered,                  \* names answered (approved, remember) since the last get_all_tools()
    removed,                     \* of those, the names taken off the allow-list since
    ret                          \* what the last operation did and returned

vars == << tools, safe_tool_names, safe_tool_patterns, skip_approvals, halt_on_rejection,
           halt_run, halt_reason, original_tool_use_behavior, tool_use_behavior,
           tools_out, calls, rejected, remembered, removed, ret >>

\* fixed at construction
config == << tools, skip_approvals, halt_on_rejection, original_tool_use_behavior,
             tool_use_behavior >>

halt == << halt_run, halt_reason, rejected >>

(***************************************************************************)
(* SafeAgent.__init__: every keyword argument but the tool list and the    *)
(* initial allow-lists.  debug_mode only adds lines on stderr.             *)
(***************************************************************************)
Constructed ==
    /\ skip_approvals \in BOOLEAN
    /\ halt_on_rejection \in BOOLEAN
    /\ halt_run = FALSE
    /\ halt_reason = None
    /\ \E tub \in {"run_llm_again", "sync", "async"} :
          IF tub \in {"sync", "async"}
          THEN /\ original_tool_use_behavior = Some(tub)
               /\ tool_use_behavior = "_custom_tool_use_behavior"
          ELSE /\ original_tool_use_behavior = None
               /\ tool_use_behavior = tub
    /\ tools_out = <<>>
    /\ calls = EmptyBag
    /\ rejected = FALSE
    /\ remembered = {}
    /\ removed = {}
    /\ ret = [op |-> "__init__"]

Init ==
    /\ tools = RunTools
    /\ safe_tool_names \in {{}, {"write_file"}}
    /\ safe_tool_patterns = <<>>
    /\ Constructed

InitClassify ==
    /\ tools = ClassifyTools
    /\ safe_tool_names \in {{}, {"list_directory"}}
    /\ safe_tool_patterns \in {<<>>, <<"list_">>}
    /\ Constructed

(***************************************************************************)
(* Safety Classifier                                                       *)
(***************************************************************************)
\* the for loop of is_tool_safe over self._safe_tool_patterns
RECURSIVE AnyPatternMatches(_, _, _)
AnyPatternMatches(patterns, i, name) ==
    IF i > Len(patterns) THEN FALSE
    ELSE IF ReMatch(patterns[i], name) THEN TRUE
    ELSE AnyPatternMatches(patterns, i + 1, name)

\* is_tool_safe with fullmatch in place of match
IsToolSafeFullMatch(tool) ==
    IF skip_approvals THEN TRUE
    ELSE IF tool.name \in safe_tool_names THEN TRUE
    ELSE \E i \in 1..Len(safe_tool_patterns) :
            ReMatch(safe_tool_patterns[i] \o "$", tool.name)

\* is_tool_safe without the skip_approvals test
IsToolSafeNoBypass(tool) ==
    IF tool.name \in safe_tool_names THEN TRUE
    ELSE AnyPatternMatches(safe_tool_patterns, 1, tool.name)

IsToolSafe(tool) ==
    IF skip_approvals THEN TRUE
    ELSE IF tool.name \in safe_tool_names THEN TRUE
    ELSE AnyPatternMatches(safe_tool_patterns, 1, tool.name)

AddSafeTool(tool_name) ==
    /\ safe_tool_names' = safe_tool_names \cup {tool_name}
    /\ removed' = removed \ {tool_name}
    /\ ret' = [op |-> "add_safe_tool"]
    /\ UNCHANGED << safe_tool_patterns, config, halt, tools_out, calls, remembered >>

\* add_safe_tool_pattern appending the text before it is compiled
PatternsAfterAddUncompiled(pattern) ==
    [patterns |-> Append(safe_tool_patterns, pattern), raised |-> ~ReCompiles(pattern)]

\* the try/except of add_safe_tool_pattern: the list afterwards, and whether
\* an error leaves the method
PatternsAfterAdd(pattern) ==
    IF ReCompiles(pattern)
    THEN [patterns |-> Append(safe_tool_patterns, pattern), raised |-> FALSE]
    ELSE [patterns |-> safe_tool_patterns, raised |-> FALSE]

AddSafeToolPattern(pattern) ==
    /\ ReCompiles(pattern) => Len(safe_tool_patterns) < MaxPatterns
    /\ safe_tool_patterns' = PatternsAfterAdd(pattern).patterns
    /\ ret' = [op |-> "add_safe_tool_pattern", arg |-> pattern,
               raised |-> PatternsAfterAdd(pattern).raised,
               before |-> << safe_tool_names, safe_tool_patterns, skip_approvals >>]
    /\ UNCHANGED << safe_tool_names, config, halt, tools_out, calls, remembered, removed >>

RemoveSafeTool(tool_name) ==
    /\ IF tool_name \in safe_tool_names
       THEN /\ safe_tool_names' = safe_tool_names \ {tool_name}
            /\ removed' = removed \cup ({tool_name} \cap remembered)
            /\ ret' = [op |-> "remove_safe_tool", val |-> TRUE]
       ELSE /\ UNCHANGED << safe_tool_names, removed >>
            /\ ret' = [op |-> "remove_safe_tool", val |-> FALSE]
    /\ UNCHANGED << safe_tool_patterns, config, halt, tools_out, calls, remembered >>

ClearSafeTools ==
    /\ safe_tool_names' = {}
    /\ safe_tool_patterns' = <<>>
    /\ removed' = removed \cup (safe_tool_names \cap remembered)
    /\ ret' = [op |-> "clear_safe_tools"]
    /\ UNCHANGED << config, halt, tools_out, calls, remembered >>

(***************************************************************************)
(* Run Halt Controller: _custom_tool_use_behavior(ctx, tool_results)       *)
(***************************************************************************)
\* the hook delegating to the original behaviour before it looks at the halt flag
CustomToolUseBehaviorDelegatesFirst(tool_results) ==
    IF original_tool_use_behavior # None
    THEN [val |-> IF IsCoroutineFunction(original_tool_use_behavior[1])
                  THEN Await(CallOriginal(original_tool_use_behavior[1], tool_results))
                  ELSE CallOriginal(original_tool_use_behavior[1], tool_results),
          original_called |-> TRUE]
    ELSE IF halt_run
    THEN [val |-> ToolsToFinalOutputResult(TRUE, Some("")), original_called |-> FALSE]
    ELSE [val |-> ToolsToFinalOutputResult(FALSE, None), original_called |-> FALSE]

CustomToolUseBehavior(tool_results) ==
    IF halt_run
    THEN [val |-> ToolsToFinalOutputResult(TRUE, Some("")), original_called |-> FALSE]
    ELSE IF original_tool_use_behavior # None
    THEN [val |-> IF IsCoroutineFunction(original_tool_use_behavior[1])
                  THEN Await(CallOriginal(original_tool_use_behavior[1], tool_results))
                  ELSE CallOriginal(original_tool_use_behavior[1], tool_results),
          original_called |-> TRUE]
    ELSE [val |-> ToolsToFinalOutputResult(FALSE, None), original_called |-> FALSE]

StepHook(tool_results) ==
    /\ ret' = [op |-> "_custom_tool_use_behavior", arg |-> tool_results,
               val |-> CustomToolUseBehavior(tool_results).val,
               original_called |-> CustomToolUseBehavior(tool_results).original_called]
    /\ UNCHANGED << safe_tool_names, safe_tool_patterns, config, halt, tools_out,
                    calls, remembered, removed >>

(***************************************************************************)
(* Approval Interceptor: wrap_tool_with_approval and get_all_tools         *)
(***************************************************************************)
\* wrap_tool_with_approval without the _approval_wrapped test
WrapToolWithApprovalNoMark(tool) ==
    IF IsToolSafe(tool) THEN tool
    ELSE IF ~tool.function THEN tool
    ELSE [name |-> tool.name, function |-> TRUE, approval_wrapped |-> TRUE,
          layers |-> tool.layers + 1]

WrapToolWithApproval(tool) ==
    IF IsToolSafe(tool) THEN tool
    ELSE IF tool.approval_wrapped THEN tool
    ELSE IF ~tool.function THEN tool
    ELSE [name |-> tool.name, function |-> TRUE, approval_wrapped |-> TRUE,
          layers |-> tool.layers + 1]

\* get_all_tools building its list back to front
WrapAllReversed(ts) == [i \in 1..Len(ts) |-> WrapToolWithApproval(ts[Len(ts) + 1 - i])]

\* [self.wrap_tool_with_approval(tool) for tool in tools]
WrapAll(ts) == [i \in 1..Len(ts) |-> WrapToolWithApproval(ts[i])]

GetAllTools ==
    /\ tools_out' = WrapAll(tools)
    /\ remembered' = {}
    /\ removed' = {}
    /\ ret' = [op |-> "get_all_tools", remembered |-> remembered, removed |-> removed]
    /\ UNCHANGED << safe_tool_names, safe_tool_patterns, config, halt, calls >>

\* a caller applies wrap_tool_with_approval to a tool value it holds
WrapHeldTool(i) ==
    /\ tools_out' = [tools_out EXCEPT ![i] = WrapToolWithApproval(tools_out[i])]
    /\ ret' = [op |-> "wrap_tool_with_approval", arg |-> tools_out[i],
               val |-> WrapToolWithApproval(tools_out[i])]
    /\ UNCHANGED << safe_tool_names, safe_tool_patterns, config, halt, calls,
                    remembered, removed >>

(***************************************************************************)
(* A tool invocation.  pc is where it stands: "callback" (awaiting the     *)
(* approval callback), "original" (awaiting the original on_invoke_tool),  *)
(* "returned" or "raised".  An invocation leaves `calls` when it ends; its *)
(* final record is what the operation that ended it reports in `ret`.      *)
(***************************************************************************)
\* on_invoke_tool testing is_tool_safe when the tool is called
EnterOnInvokeChecksPolicy(c, left) ==
    IF left > 0 /\ ~IsToolSafe(c)
    THEN [c EXCEPT !.pc = "callback", !.left = left - 1, !.asked = c.asked + 1,
                   !.summary = FormatArgs(c.args[2])]
    ELSE [c EXCEPT !.pc = "original", !.left = 0, !.started = c.started + 1,
                   !.passed = Some(c.args)]

\* awaiting on_invoke_tool of a tool value with `left` approval closures ahead:
\* approved_on_invoke up to its await of the callback, or the original
\* on_invoke_tool called with (context, params_json)
EnterOnInvoke(c, left) ==
    IF left > 0
    THEN LET formatted_args == FormatArgs(c.args[2])
         IN  IF formatted_args = None
             THEN [c EXCEPT !.pc = "raised", !.left = left - 1]
             ELSE [c EXCEPT !.pc = "callback", !.left = left - 1, !.asked = c.asked + 1,
                            !.summary = formatted_args]
    ELSE [c EXCEPT !.pc = "original", !.left = 0, !.started = c.started + 1,
                   !.passed = Some(c.args)]

NewCall(tool, params_json) ==
    EnterOnInvoke([name |-> tool.name, layers |-> tool.layers, pc |-> "new",
                   args |-> << ContextInput, params_json >>,
                   left |-> 0, asked |-> 0, started |-> 0, summary |-> None,
                   approved |-> None, error_msg |-> None, passed |-> None,
                   out |-> None], tool.layers)

InvokeTool(i, params_json) ==
    /\ BagCardinality(calls) < MaxCalls
    /\ tools_out[i].function
    /\ LET c == NewCall(tools_out[i], params_json)
       IN  /\ calls' = IF c.pc = "raised" THEN calls ELSE calls (+) SetToBag({c})
           /\ ret' = [op |-> "on_invoke_tool", call |-> c]
    /\ UNCHANGED << safe_tool_names, safe_tool_patterns, config, halt, tools_out,
                    remembered, removed >>

\* the rejection response with the halt text as its default message
RejectionPayloadHaltDefault(error_msg, name) ==
    JsonDumps(<< <<"error", "TOOL_REJECTED">>,
                 <<"message", OrElse(error_msg, "User rejected")>>,
                 <<"tool", name>> >>)

\* the rejection response of approved_on_invoke
RejectionPayload(error_msg, name) ==
    JsonDumps(<< <<"error", "TOOL_REJECTED">>,
                 <<"message", OrElse(error_msg, "User rejected tool call")>>,
                 <<"tool", name>> >>)

\* the halt reason with the payload's default text
HaltReasonPayloadDefault(error_msg, name) ==
    OrElse(error_msg, "User rejected tool call") \o " the " \o name \o " tool"

\* self._halt_reason on rejection
HaltReason(error_msg, name) ==
    OrElse(error_msg, "User rejected") \o " the " \o name \o " tool"

\* approved_on_invoke falling through to the original invocation on rejection
ApprovedOnInvokeUngated(c, approved, always_approve, error_msg) ==
    EnterOnInvoke([c EXCEPT !.approved = Some(approved), !.error_msg = error_msg], c.left)

\* approved_on_invoke refusing an approved call once the run is halted
ApprovedOnInvokeReadsHalt(c, approved, always_approve, error_msg) ==
    IF approved /\ ~halt_run
    THEN EnterOnInvoke([c EXCEPT !.approved = Some(TRUE)], c.left)
    ELSE [c EXCEPT !.approved = Some(approved), !.error_msg = error_msg,
                   !.pc = "returned", !.out = Some(RejectionPayload(error_msg, c.name))]

\* approved_on_invoke once the callback has answered: the call afterwards
ApprovedOnInvoke(c, approved, always_approve, error_msg) ==
    IF approved
    THEN EnterOnInvoke([c EXCEPT !.approved = Some(TRUE)], c.left)
    ELSE [c EXCEPT !.approved = Some(FALSE), !.error_msg = error_msg,
                   !.pc = "returned", !.out = Some(RejectionPayload(error_msg, c.name))]

\* approved_on_invoke remembering whenever the remember flag is set
SafeNamesAfterRemembersRejected(name, approved, always_approve) ==
    IF always_approve
    THEN safe_tool_names \cup {name}
    ELSE safe_tool_names

\* approved_on_invoke never remembering an approval
SafeNamesAfterForgets(name, approved, always_approve) == safe_tool_names

\* ... the allow-list afterwards
SafeNamesAfter(name, approved, always_approve) ==
    IF approved /\ always_approve
    THEN safe_tool_names \cup {name}
    ELSE safe_tool_names

\* approved_on_invoke clearing the halt state when a call is approved
HaltAfterApprovalClears(name, approved, error_msg) ==
    IF approved THEN << FALSE, None >>
    ELSE IF halt_on_rejection
    THEN << TRUE, Some(HaltReason(error_msg, name)) >>
    ELSE << halt_run, halt_reason >>

\* approved_on_invoke halting whatever halt_on_rejection says
HaltAfterAlways(name, approved, error_msg) ==
    IF ~approved
    THEN << TRUE, Some(HaltReason(error_msg, name)) >>
    ELSE << halt_run, halt_reason >>

\* ... and the halt state afterwards
HaltAfter(name, approved, error_msg) ==
    IF ~approved /\ halt_on_rejection
    THEN << TRUE, Some(HaltReason(error_msg, name)) >>
    ELSE << halt_run, halt_reason >>

\* the calls still in flight once call c has become d
Continue(c, d) ==
    IF d.pc \in {"returned", "raised"}
    THEN calls (-) SetToBag({c})
    ELSE (calls (-) SetToBag({c})) (+) SetToBag({d})

CallbackReturns(c, approved, always_approve, error_msg) ==
    /\ c.pc = "callback"
    /\ calls' = Continue(c, ApprovedOnInvoke(c, approved, always_approve, error_msg))
    /\ safe_tool_names' = SafeNamesAfter(c.name, approved, always_approve)
    /\ halt_run' = HaltAfter(c.name, approved, error_msg)[1]
    /\ halt_reason' = HaltAfter(c.name, approved, error_msg)[2]
    /\ rejected' = (rejected \/ ~approved)
    /\ IF approved /\ always_approve
       THEN /\ remembered' = remembered \cup {c.name}
            /\ removed' = removed \ {c.name}
       ELSE UNCHANGED << remembered, removed >>
    /\ ret' = [op |-> "approved_on_invoke",
               call |-> ApprovedOnInvoke(c, approved, always_approve, error_msg),
               answer |-> << approved, always_approve >>,
               policy_before |-> << safe_tool_names, safe_tool_patterns, skip_approvals >>,
               halt_before |-> << halt_run, halt_reason >>]
    /\ UNCHANGED << safe_tool_patterns, config, tools_out >>

\* what the original on_invoke_tool of a tool does with (context, params_json)
ToolReturns(c) == [kind |-> "returned", value |-> "result of " \o c.name]

ToolRaises(c) == [kind |-> "raised", value |-> "error of " \o c.name]

\* approved_on_invoke turning an error of the original into a response
DelegateCatches(c, outcome) ==
    [c EXCEPT !.pc = "returned", !.out = Some(outcome.value)]

\* `return await original_on_invoke(context, params_json)`: the call ends as
\* the original on_invoke_tool ended
Delegate(c, outcome) ==
    [c EXCEPT !.pc = outcome.kind, !.out = Some(outcome.value)]

\* the original on_invoke_tool completes with the tool's textual result
OriginalReturns(c) ==
    /\ c.pc = "original"
    /\ calls' = calls (-) SetToBag({c})
    /\ ret' = [op |-> "original_on_invoke", outcome |-> ToolReturns(c),
               call |-> Delegate(c, ToolReturns(c)),
               halt_before |-> << halt_run, halt_reason >>]
    /\ UNCHANGED << safe_tool_names, safe_tool_patterns, config, halt, tools_out,
                    remembered, removed >>

\* the original on_invoke_tool raises; the error propagates
OriginalRaises(c) ==
    /\ c.pc = "original"
    /\ calls' = calls (-) SetToBag({c})
    /\ ret' = [op |-> "original_on_invoke", outcome |-> ToolRaises(c),
               call |-> Delegate(c, ToolRaises(c)),
               halt_before |-> << halt_run, halt_reason >>]
    /\ UNCHANGED << safe_tool_names, safe_tool_patterns, config, halt, tools_out,
                    remembered, removed >>

\* the runtime starts another run on the same agent instance once the calls
\* of the previous one have ended; no code of SafeAgent runs at that point
NewRun ==
    /\ calls = EmptyBag
    /\ ret' = [op |-> "new_run"]
    /\ UNCHANGED << safe_tool_names, safe_tool_patterns, config, halt, tools_out,
                    calls, remembered, removed >>

(***************************************************************************)
(* Next-state relations and specifications                                 *)
(***************************************************************************)
\* an agent run: policy mutations, tool fetches, invocations and step hooks
Next ==
    \/ \E n \in RunNameInputs : AddSafeTool(n)
    \/ \E p \in RunPatternInputs : AddSafeToolPattern(p)
    \/ \E n \in RunNameInputs : RemoveSafeTool(n)
    \/ ClearSafeTools
    \/ \E tr \in ResultInputs : StepHook(tr)
    \/ GetAllTools
    \/ \E i \in 1..Len(tools_out) : WrapHeldTool(i)
    \/ \E i \in 1..Len(tools_out), params_json \in RunPayloadInputs : InvokeTool(i, params_json)
    \* the callback's answers: an approval carries no reason
    \/ \E c \in BagToSet(calls), always_approve \in BOOLEAN :
          CallbackReturns(c, TRUE, always_approve, None)
    \/ \E c \in BagToSet(calls), always_approve \in BOOLEAN, error_msg \in ReasonInputs :
          CallbackReturns(c, FALSE, always_approve, error_msg)
    \/ \E c \in BagToSet(calls) : OriginalReturns(c)
    \/ \E c \in BagToSet(calls) : OriginalRaises(c)
    \/ NewRun

Spec == Init /\ [][Next]_vars

\* tool invocations with varying payloads under a fixed policy: approvals are
\* asked for (no bypass) and nothing is on the allow-lists at the start
InitInvoke ==
    /\ tools = RunTools
    /\ safe_tool_names = {}
    /\ safe_tool_patterns = <<>>
    /\ Constructed
    /\ ~skip_approvals
    /\ original_tool_use_behavior = None

NextInvoke ==
    \/ GetAllTools
    \/ \E i \in 1..Len(tools_out), params_json \in InvokePayloadInputs :
          InvokeTool(i, params_json)
    \/ \E c \in BagToSet(calls), always_approve \in BOOLEAN :
          CallbackReturns(c, TRUE, always_approve, None)
    \/ \E c \in BagToSet(calls), always_approve \in BOOLEAN :
          CallbackReturns(c, FALSE, always_approve, Some("policy"))
    \/ \E c \in BagToSet(calls) : OriginalReturns(c)
    \/ \E c \in BagToSet(calls) : OriginalRaises(c)

SpecInvoke == InitInvoke /\ [][NextInvoke]_vars

\* the classifier under a richer policy: mutations and tool fetches
NextClassify ==
    \/ \E n \in ClassifyNameInputs : AddSafeTool(n)
    \/ \E p \in ClassifyPatternInputs : AddSafeToolPattern(p)
    \/ \E n \in ClassifyNameInputs : RemoveSafeTool(n)
    \/ ClearSafeTools
    \/ GetAllTools
    \/ \E i \in 1..Len(tools_out) : WrapHeldTool(i)

SpecClassify == InitClassify /\ [][NextClassify]_vars

(***************************************************************************)
(* Properties                                                              *)
(***************************************************************************)
\* every invocation the state knows: those in flight and the one just ended
AllCalls == BagToSet(calls) \cup (IF "call" \in DOMAIN ret THEN {ret.call} ELSE {})

\* the positions of s (characters consumed) at which p[i..] can end when
\* started at one of the positions `from`: p read as a set of strings
RECURSIVE EndsAfter(_, _, _, _)
EndsAfter(p, i, s, from) ==
    IF i > Len(p) THEN from
    ELSE IF i < Len(p) /\ Char(p, i + 1) = "*"
    THEN EndsAfter(p, i + 2, s,
             { k \in 0..Len(s) : \E f \in from :
                 f <= k /\ \A q \in (f + 1)..k : Char(p, i) \in {".", Char(s, q)} })
    ELSE IF Char(p, i) = "$"
    THEN EndsAfter(p, i + 1, s, from \cap {Len(s)})
    ELSE EndsAfter(p, i + 1, s,
             { f + 1 : f \in { g \in from : g < Len(s) /\ Char(p, i) \in {".", Char(s, g + 1)} } })

\* some prefix of the name is a string of the pattern
MatchesFromStart(p, name) == EndsAfter(p, 1, name, {0}) # {}

\* tool names the classifier is asked about
ProbeNames == {"list_directory", "write_file", "web_search_preview", "list_", "file", "we"}

\* C1: a wrapped tool's original invocation runs only after the approval
\* callback of the same invocation has answered approved=true; it has not run
\* while the callback is pending, nor after the callback answered approved=false.
C1_ApprovalBeforeInvocation ==
    \A c \in AllCalls :
        c.layers > 0 =>
            /\ c.started > 0 => c.approved = Some(TRUE)
            /\ c.pc = "callback" => c.started = 0
            /\ c.approved = Some(FALSE) => (c.started = 0 /\ c.pc = "returned")

C1_Witness ==
    /\ ret.op = "original_on_invoke"
    /\ ret.call.layers > 0
    /\ ret.call.started = 1
    /\ rejected
    /\ \E c \in BagToSet(calls) : c.pc = "callback"

\* C2: is_tool_safe(T) is true exactly when the bypass flag is set, or T is in
\* the exact allow-list, or some stored pattern matches T from its start.
C2_IsToolSafeIff ==
    \A T \in ProbeNames :
        IsToolSafe([name |-> T]) <=>
            \/ skip_approvals
            \/ T \in safe_tool_names
            \/ \E i \in 1..Len(safe_tool_patterns) : MatchesFromStart(safe_tool_patterns[i], T)

C2_Witness ==
    /\ ~skip_approvals
    /\ ret.op = "add_safe_tool_pattern"
    /\ safe_tool_names = {"list_directory"}
    /\ IsToolSafe([name |-> "write_file"])
    /\ ~IsToolSafe([name |-> "web_search_preview"])
    /\ ~IsToolSafe([name |-> "file"])

\* the JSON text of a rejection payload with the given message and tool
RejectionText(message, tool) ==
    "{\"error\": \"TOOL_REJECTED\", \"message\": \"" \o message
        \o "\", \"tool\": \"" \o tool \o "\"}"

\* C3 as stated: a rejected call returns the payload with error TOOL_REJECTED,
\* the tool's name and the callback's reason r as message, the default text
\* only when r is absent.
C3_Original ==
    (ret.op = "approved_on_invoke" /\ ret.call.approved = Some(FALSE)) =>
        /\ ret.call.pc = "returned"
        /\ ret.call.out = Some(RejectionText(
               IF ret.call.error_msg = None THEN "User rejected tool call"
               ELSE ret.call.error_msg[1], ret.call.name))

\* C3 (amended): a rejected call returns (never raises) the payload with error
\* TOOL_REJECTED, the tool's name and the callback's reason r as message, the
\* default text when r is absent or the empty string; halt-on-rejection or not.
C3_RejectionPayload ==
    (ret.op = "approved_on_invoke" /\ ret.call.approved = Some(FALSE)) =>
        /\ ret.call.pc = "returned"
        /\ ret.call.started = 0
        /\ ret.call.out = Some(RejectionText(
               IF ret.call.error_msg \in {None, Some("")} THEN "User rejected tool call"
               ELSE ret.call.error_msg[1], ret.call.name))

C3_Witness ==
    /\ ~halt_on_rejection
    /\ ret.op = "approved_on_invoke"
    /\ ret.call.approved = Some(FALSE)
    /\ ret.call.error_msg = Some("policy")
    /\ ret.call.out =
         Some("{\"error\": \"TOOL_REJECTED\", \"message\": \"policy\", \"tool\": \"write_file\"}")

\* C4: with halt-on-rejection enabled, once a wrapped call has been rejected
\* every invocation of the step hook returns the final-output signal with an
\* empty result and does not invoke the original step behaviour.
C4_HaltedStepIsFinal ==
    (halt_on_rejection /\ rejected /\ ret.op = "_custom_tool_use_behavior") =>
        /\ ret.val = [is_final_output |-> TRUE, final_output |-> Some("")]
        /\ ~ret.original_called

C4_Witness ==
    /\ halt_on_rejection
    /\ rejected
    /\ ret.op = "_custom_tool_use_behavior"
    /\ original_tool_use_behavior = Some("async")
    /\ ret.arg = "r2"
    /\ ret.val.is_final_output

\* C5 as stated: with halt-on-rejection, rejecting tool X with reason r sets
\* halted=true and the reason "<r> the X tool", <r> being 'User rejected' only
\* when the callback supplied no reason.
C5_Original ==
    (halt_on_rejection /\ ret.op = "approved_on_invoke" /\ ret.call.approved = Some(FALSE)) =>
        /\ halt_run
        /\ halt_reason =
             Some((IF ret.call.error_msg = None THEN "User rejected"
                   ELSE ret.call.error_msg[1]) \o " the " \o ret.call.name \o " tool")

\* C5 (amended): with halt-on-rejection, rejecting tool X with reason r sets
\* halted=true and the reason "<r> the X tool", <r> being 'User rejected' when
\* the callback supplied no reason or an empty one.
C5_HaltReason ==
    (halt_on_rejection /\ ret.op = "approved_on_invoke" /\ ret.call.approved = Some(FALSE)) =>
        /\ halt_run
        /\ halt_reason =
             Some((IF ret.call.error_msg \in {None, Some("")} THEN "User rejected"
                   ELSE ret.call.error_msg[1]) \o " the " \o ret.call.name \o " tool")

C5_Witness ==
    /\ halt_on_rejection
    /\ ret.op = "approved_on_invoke"
    /\ ret.call.approved = Some(FALSE)
    /\ ret.call.error_msg = None
    /\ halt_reason = Some("User rejected the write_file tool")

\* C6: in bypass mode get_all_tools returns every tool unwrapped and the
\* approval callback is never invoked, whatever the allow-lists hold and
\* whatever was called before.
C6_BypassNeverAsks ==
    skip_approvals =>
        /\ tools_out \in {<<>>, tools}
        /\ ret.op = "get_all_tools" => tools_out = tools
        /\ ret.op # "approved_on_invoke"
        /\ \A c \in AllCalls : c.asked = 0 /\ c.pc # "callback" /\ c.layers = 0

C6_Witness ==
    /\ skip_approvals
    /\ safe_tool_names = {}
    /\ safe_tool_patterns = <<>>
    /\ tools_out = tools
    /\ ret.op = "original_on_invoke"
    /\ ret.call.name = "write_file"
    /\ ret.call.pc = "returned"

\* C7 as stated: after an (approved, remember) answer for X the next
\* get_all_tools returns X unwrapped.
C7_Original ==
    ret.op = "get_all_tools" =>
        \A i \in 1..Len(tools) :
            tools[i].name \in ret.remembered => tools_out[i] = tools[i]

\* C7 (amended): after an (approved, remember) answer for X, and unless X was
\* taken off the allow-list in between (remove_safe_tool(X), clear_safe_tools),
\* the next get_all_tools returns X unwrapped; invoking an unwrapped tool runs
\* the original operation without asking the approval callback.
C7_RememberedIsSafe ==
    /\ ret.op = "get_all_tools" =>
          \A i \in 1..Len(tools) :
              tools[i].name \in (ret.remembered \ ret.removed) =>
                  /\ tools_out[i] = tools[i]
                  /\ \A params_json \in RunPayloadInputs :
                        NewCall(tools_out[i], params_json).pc = "original"
    /\ \A c \in AllCalls : c.layers = 0 => (c.asked = 0 /\ c.pc # "callback")

C7_Witness ==
    /\ ~skip_approvals
    /\ ret.op = "get_all_tools"
    /\ "write_file" \in ret.remembered
    /\ ret.removed = {}
    /\ safe_tool_patterns = <<>>
    /\ tools_out[1] = tools[1]

\* C8: with halt-on-rejection disabled Halt State is never set, and the step
\* hook returns what the original step behaviour returns for the same input
\* (awaited when it is asynchronous), never forcing a final output.
C8_NoHaltWhenDisabled ==
    ~halt_on_rejection =>
        /\ ~halt_run
        /\ halt_reason = None
        /\ ret.op = "_custom_tool_use_behavior" =>
              IF original_tool_use_behavior = None
              THEN /\ ret.val = [is_final_output |-> FALSE, final_output |-> None]
                   /\ ~ret.original_called
              ELSE /\ ret.val = OriginalResult(ret.arg)
                   /\ ret.original_called

C8_Witness ==
    /\ ~halt_on_rejection
    /\ rejected
    /\ ret.op = "_custom_tool_use_behavior"
    /\ original_tool_use_behavior = Some("async")
    /\ ret.arg = "r2"
    /\ ~ret.val.is_final_output

\* C9: wrap_tool_with_approval applied to an already wrapped tool returns the
\* same tool, so no tool value carries more than one approval layer and an
\* invocation of a wrapped tool asks the approval callback exactly once.
C9_WrapIdempotent ==
    /\ (ret.op = "wrap_tool_with_approval" /\ ret.arg.approval_wrapped) => ret.val = ret.arg
    /\ \A i \in 1..Len(tools_out) : tools_out[i].layers <= 1
    /\ \A c \in AllCalls : c.layers > 0 => c.asked = 1

C9_Witness ==
    /\ ret.op = "wrap_tool_with_approval"
    /\ ret.arg.approval_wrapped
    /\ ~IsToolSafe(ret.arg)
    /\ \E c \in BagToSet(calls) : c.layers = 1 /\ c.pc = "original"

\* C10: get_all_tools returns one tool per tool of the definition, in the same
\* order and with the same names; a tool classified safe at that moment is the
\* original, a function tool classified unsafe is approval-wrapped.
C10_GetAllTools ==
    ret.op = "get_all_tools" =>
        /\ Len(tools_out) = Len(tools)
        /\ \A i \in 1..Len(tools) :
              /\ tools_out[i].name = tools[i].name
              /\ IsToolSafe(tools[i]) => tools_out[i] = tools[i]
              /\ (~IsToolSafe(tools[i]) /\ tools[i].function) =>
                    /\ tools_out[i].approval_wrapped
                    /\ tools_out[i].layers = 1
                    /\ tools_out[i].function

C10_Witness ==
    /\ ~skip_approvals
    /\ safe_tool_names = {"list_directory"}
    /\ safe_tool_patterns = <<>>
    /\ ret.op = "get_all_tools"
    /\ tools_out[1] = tools[1]
    /\ tools_out[2].approval_wrapped
    /\ tools_out[2].name = "write_file"
    /\ tools_out[3] = tools[3]

\* C11: when the callback approves a call of a wrapped tool, the original
\* on_invoke_tool is invoked exactly once, with the context and payload the
\* wrapped call was given; the wrapped call ends as the original ends (the same
\* return value, or the same error), and neither the approval nor the original's
\* end changes the halt state.
C11_ApprovedDelegates ==
    /\ \A c \in AllCalls :
          (c.layers > 0 /\ c.approved = Some(TRUE)) =>
              (c.started = 1 /\ c.passed = Some(c.args))
    /\ (ret.op = "approved_on_invoke" /\ ret.answer[1]) =>
          /\ ret.call.pc = "original"
          /\ << halt_run, halt_reason >> = ret.halt_before
    /\ (ret.op = "original_on_invoke" /\ ret.call.layers > 0) =>
          /\ ret.call.pc = ret.outcome.kind
          /\ ret.call.out = Some(ret.outcome.value)
          /\ ret.call.started = 1
          /\ << halt_run, halt_reason >> = ret.halt_before

C11_Witness ==
    /\ ret.op = "original_on_invoke"
    /\ ret.call.layers > 0
    /\ ret.call.approved = Some(TRUE)
    /\ ret.call.pc = "raised"
    /\ ret.call.out = Some("error of write_file")
    /\ ret.call.passed = Some(<< ContextInput, "[1]" >>)
    /\ halt_run

\* C12: once _halt_run is True it stays True through every later step:
\* callback answers (approvals and rejections), original invocations, step
\* hooks, get_all_tools and policy mutations.
C12_HaltedStaysHalted == [][halt_run => halt_run']_vars

C12_Witness ==
    /\ ret.op = "approved_on_invoke"
    /\ ret.answer[1]
    /\ ret.halt_before[1]
    /\ halt_run

\* C13: the halt state is set at most once: the first rejection (with
\* halt_on_rejection) sets _halt_run and _halt_reason, and a rejection that
\* finds _halt_run already True, of a concurrent call of the same batch or of a
\* later call, leaves the stored reason as the first rejection wrote it.
C13_HaltSetOnce ==
    (ret.op = "approved_on_invoke" /\ ~ret.answer[1] /\ halt_on_rejection) =>
        IF ret.halt_before[1]
        THEN << halt_run, halt_reason >> = ret.halt_before
        ELSE << halt_run, halt_reason >> =
                 << TRUE, Some(HaltReason(ret.call.error_msg, ret.call.name)) >>

\* C14: a run that starts on an agent instance starts with _halt_run False and
\* no reason, also when a rejection halted the previous run of that instance;
\* its step hook, with no original behaviour, does not force a final output.
C14_NewRunStartsClear ==
    ret.op = "new_run" =>
        /\ ~halt_run
        /\ halt_reason = None
        /\ original_tool_use_behavior = None =>
              \A tr \in ResultInputs : ~CustomToolUseBehavior(tr).val.is_final_output

\* C15: _custom_tool_use_behavior is the tool_use_behavior of every constructed
\* agent, whether the behaviour given at construction was absent, a function or
\* a coroutine function; with none given, the hook answers "not final, no
\* output" while _halt_run is False and "final, empty output" once it is True.
C15_HookInstalled ==
    /\ tool_use_behavior = "_custom_tool_use_behavior"
    /\ (ret.op = "_custom_tool_use_behavior" /\ original_tool_use_behavior = None) =>
          ret.val = IF halt_run
                    THEN ToolsToFinalOutputResult(TRUE, Some(""))
                    ELSE ToolsToFinalOutputResult(FALSE, None)

\* C16: a halt does not touch the tool invocations: a call whose callback
\* answers approved=true after another call's rejection has set _halt_run still
\* enters its original on_invoke_tool, which can then end; and an invocation
\* leaves only by its own step (its callback's rejection, or the end of its
\* original), one invocation per step, so a rejection cancels no other call.
C16_HaltOnlyAtStepBoundary ==
    /\ [](/\ (ret.op = "approved_on_invoke" /\ ret.answer[1] /\ ret.halt_before[1]) =>
                /\ ret.call.pc = "original"
                /\ ret.call.started = 1
                /\ ret.call \in BagToSet(calls)
          /\ \A c \in BagToSet(calls) :
                c.pc = "original" => ENABLED (OriginalReturns(c) /\ ret'.call.pc = "returned"))
    /\ [][/\ BagCardinality(calls') >= BagCardinality(calls) - 1
          /\ \A c \in BagToSet(calls) :
                CopiesIn(c, calls') < CopiesIn(c, calls) =>
                   /\ ret'.op = IF c.pc = "callback" THEN "approved_on_invoke"
                                ELSE "original_on_invoke"
                   /\ ret'.call.args = c.args
                   /\ ret'.call.name = c.name]_vars

C16_Witness ==
    /\ ret.op = "approved_on_invoke"
    /\ ret.answer[1]
    /\ ret.halt_before = << TRUE, Some("policy the write_file tool") >>
    /\ ret.call.pc = "original"
    /\ ret.call \in BagToSet(calls)
    /\ rejected

\* the argument summary the callback is to see for each payload: the formatted
\* members of an object, the raw text where parsing or formatting fails
ExpectedSummary(params_json) ==
    CASE params_json = "{\"path\": \"a.txt\", \"mode\": \"w\"}" -> "path: 'a.txt', mode: 'w'"
      [] params_json = "{\"path\": \"a.txt\"}" -> "path: 'a.txt'"
      [] params_json = "" -> ""
      [] OTHER -> params_json

\* C17: whatever the payload of a wrapped call (an object, valid JSON that is
\* no object, malformed text, the empty text), the approval callback is invoked
\* exactly once, with the raw payload text as the summary where parsing or
\* formatting failed; the call raises nothing on its own and goes on as the
\* callback answers: the original runs once on approval, the rejection
\* response is returned on rejection.
C17_ParseFailureNeverAborts ==
    \A c \in AllCalls :
        c.layers > 0 =>
            /\ c.asked = 1
            /\ c.summary = Some(ExpectedSummary(c.args[2]))
            /\ c.approved = None => c.pc = "callback"
            /\ c.approved = Some(TRUE) =>
                  (c.started = 1 /\ c.pc \in {"original", "returned", "raised"})
            /\ c.approved = Some(FALSE) =>
                  /\ c.started = 0
                  /\ c.pc = "returned"
                  /\ c.out = Some(RejectionText(OrElse(c.error_msg, "User rejected tool call"),
                                                c.name))

C17_Witness ==
    /\ ret.op = "original_on_invoke"
    /\ ret.call.layers > 0
    /\ ret.call.args[2] = "{\"path\": "
    /\ ret.call.summary = Some("{\"path\": ")
    /\ ret.call.asked = 1
    /\ ret.call.pc = "returned"
    /\ \E c \in BagToSet(calls) :
          c.args[2] = "[1]" /\ c.summary = Some("[1]") /\ c.pc = "callback"

\* the pattern texts among the inputs that re.compile rejects
BadPatterns == {"*"}

\* the classification of name T under a policy << names, patterns, bypass >>
SafeUnder(policy, T) ==
    \/ policy[3]
    \/ T \in policy[1]
    \/ \E i \in 1..Len(policy[2]) : MatchesFromStart(policy[2][i], T)

\* C18: add_safe_tool_pattern with a text that does not compile raises nothing
\* and leaves the policy as it was (exact names, patterns, bypass flag), so
\* every tool name is classified as before the call.
C18_BadPatternIgnored ==
    (ret.op = "add_safe_tool_pattern" /\ ret.arg \in BadPatterns) =>
        /\ ~ret.raised
        /\ << safe_tool_names, safe_tool_patterns, skip_approvals >> = ret.before
        /\ \A T \in ProbeNames : IsToolSafe([name |-> T]) <=> SafeUnder(ret.before, T)

C18_Witness ==
    /\ ret.op = "add_safe_tool_pattern"
    /\ ret.arg = "*"
    /\ ~ret.raised
    /\ ~skip_approvals
    /\ safe_tool_patterns = << "list_" >>
    /\ safe_tool_names = {"write_file"}

\* C19: a callback answer changes the policy only when it is (approved=true,
\* remember=true): then exactly the called tool's name is added to the exact
\* allow-list; every other answer, (approved=false, remember=true) included,
\* leaves the allow-list as it was; no answer changes the patterns or the
\* bypass flag.
C19_RememberOnlyWithApproval ==
    ret.op = "approved_on_invoke" =>
        /\ safe_tool_names =
              IF ret.answer = << TRUE, TRUE >>
              THEN ret.policy_before[1] \cup {ret.call.name}
              ELSE ret.policy_before[1]
        /\ safe_tool_patterns = ret.policy_before[2]
        /\ skip_approvals = ret.policy_before[3]

C19_Witness ==
    /\ ret.op = "approved_on_invoke"
    /\ ret.answer = << FALSE, TRUE >>
    /\ ret.call.name = "write_file"
    /\ safe_tool_names = {}
    /\ safe_tool_patterns = << "w.*e$" >>

\* C20: whether a tool asks for approval is decided when get_all_tools wraps
\* it: every invocation of a wrapped tool value asks the callback first, also
\* when its name is on the allow-list by then; adding a name (add_safe_tool, a
\* remembered approval) changes no tool value already handed out, and the next
\* get_all_tools returns the tools whose names are on the allow-list unwrapped.
C20_SafetyDecidedAtFetch ==
    /\ [](/\ (ret.op = "on_invoke_tool" /\ ret.call.layers > 0) =>
                (ret.call.pc = "callback" /\ ret.call.asked = 1 /\ ret.call.started = 0)
          /\ ret.op = "get_all_tools" =>
                \A i \in 1..Len(tools) :
                    tools[i].name \in safe_tool_names => tools_out[i] = tools[i])
    /\ [][ret'.op \in {"add_safe_tool", "approved_on_invoke"} => tools_out' = tools_out]_vars

C20_Witness ==
    /\ ret.op = "on_invoke_tool"
    /\ ret.call.layers > 0
    /\ ret.call.pc = "callback"
    /\ ret.call.name = "write_file"
    /\ ~skip_approvals
    /\ "write_file" \in safe_tool_names
    /\ remembered = {"write_file"}

====
